---------------------------- MODULE Spec2Model ----------------------------
(***************************************************************************)
(* A model of terminal-runner (src/main.py): a text adventure whose scenes *)
(* are Python functions calling one another.  The narrative position is    *)
(* the call stack, so the model keeps the stack of activations explicitly: *)
(* one frame per active function, with the call site it waits at and the   *)
(* GameState object its game_state parameter is bound to.                  *)
(*                                                                         *)
(* A line of input is a sequence of one-character strings; str.lower and   *)
(* str.upper are computed character by character.  random.random() is a    *)
(* numerator d over DrawDen (the value d/DrawDen), random.choice(list) is  *)
(* the index it picks.                                                     *)
(***************************************************************************)
EXTENDS Integers, Sequences, FiniteSets

VARIABLES
    stack,       \* call stack, bottom first: frames [fn, pc, gs, is_ending, question]
    heap,        \* the GameState objects created so far; a frame's gs indexes it
    status,      \* "running" | "exited"
    exitCode,    \* the process exit code once exited, -1 before
    typed,       \* <<line>>: the raw line read by the last step, <<>> if it read none
    user_input,  \* <<value>>: that line as normalised by the reading code
    draw,        \* <<n>>: the random outcome drawn by the last step, <<>> if none
    printed,     \* the lines of output that identify what the last step printed
    scenario,    \* the lines standard input holds when the program starts
    stdin,       \* the lines not yet read; the input ends after its last line
    probe        \* harness of the modify_score check (ScoreSpec); idle in Spec

vars == <<stack, heap, status, exitCode, typed, user_input, draw, printed,
          scenario, stdin, probe>>

-----------------------------------------------------------------------------
(* Bounds of the model *)

\* the open input of Spec: at most MaxLines lines, each of them any line of
\* Inputs, and the input may end before any of them
MaxLines == 12

\* DeepSpec: the open lines that follow the go-backs of GoBackThenPlay
TailLines == 5

\* random.random() is drawn as d/DrawDen, d in 0..DrawDen-1
DrawDen == 2

\* ScoreSpec: starting scores range over -MaxStart..MaxStart+10, deltas over -MaxDelta..MaxDelta
MaxStart == 2
MaxDelta == 5

-----------------------------------------------------------------------------
(* Text: str.lower, str.upper *)

UpperLetters == <<"A","B","C","D","E","F","G","H","I","J","K","L","M",
                  "N","O","P","Q","R","S","T","U","V","W","X","Y","Z">>
LowerLetters == <<"a","b","c","d","e","f","g","h","i","j","k","l","m",
                  "n","o","p","q","r","s","t","u","v","w","x","y","z">>

\* the lower-case and upper-case counterparts of the cased characters
LowerMap == [c \in {UpperLetters[i] : i \in 1..26} |->
                LowerLetters[CHOOSE i \in 1..26 : UpperLetters[i] = c]]
UpperMap == [c \in {LowerLetters[i] : i \in 1..26} |->
                UpperLetters[CHOOSE i \in 1..26 : LowerLetters[i] = c]]

LowerChar(c) == IF c \in DOMAIN LowerMap THEN LowerMap[c] ELSE c

UpperChar(c) == IF c \in DOMAIN UpperMap THEN UpperMap[c] ELSE c

\* str.lower()
Lower(line) == [i \in 1..Len(line) |-> LowerChar(line[i])]

\* str.upper()
Upper(line) == [i \in 1..Len(line) |-> UpperChar(line[i])]

\* x in list
InList(x, list) == \E i \in 1..Len(list) : list[i] = x

\* the lines a player may type: the empty line, single characters in both
\* cases (valid and invalid ones), spellings of "jump", and longer typos
Inputs ==
    {<<>>}
    \cup {<<c>> : c \in {"y","Y","n","1","2","a","b","c","x"}}
    \cup {<<"J","U","M","P">>, <<"J","u","m","p">>, <<"j","u","m">>}

\* a line of an input script that is left open: it stands for any line of
\* Inputs, or for the end of the input at this point
AnyLine == <<"?">>

-----------------------------------------------------------------------------
(* GameState *)

\* GameState.__init__
GameState == [score |-> 10, has_fire_armor |-> FALSE]

\* (mutant) the score is overwritten with the amount instead of adjusted
modify_score_assigns(self, amount) ==
    [self |-> [self EXCEPT !.score = amount], result |-> amount]

\* GameState.modify_score: the updated object and the value returned
modify_score(self, amount) ==
    [self |-> [self EXCEPT !.score = self.score + amount],
     result |-> self.score + amount]

\* (mutant) the game is never over
is_game_over_never(self) == FALSE

\* (mutant) the game is over only below zero
is_game_over_strict(self) == self.score < 0

\* GameState.is_game_over
is_game_over(self) == self.score <= 0

-----------------------------------------------------------------------------
(* Input *)

YesNo == << <<"y">>, <<"n">> >>
OneTwo == << <<"1">>, <<"2">> >>
YesNoBlank == << <<"y">>, <<"n">>, <<>> >>
Letters == << <<"a">>, <<"b">>, <<"c">> >>

\* the default error message of get_valid_input: "Invalid choice. Choose: "
\* followed by the options joined with ", "
ErrorText(valid_options) ==
    CASE valid_options = YesNo -> "Invalid choice. Choose: y, n"
      [] valid_options = OneTwo -> "Invalid choice. Choose: 1, 2"
      [] valid_options = YesNoBlank -> "Invalid choice. Choose: y, n, "
      [] valid_options = Letters -> "Invalid choice. Choose: a, b, c"

\* (mutant) the line is lower-cased and returned without the membership test
get_valid_input_unchecked(line, valid_options) ==
    [user_input |-> Lower(line),
     valid |-> TRUE,
     error |-> ErrorText(valid_options)]

\* get_valid_input, one turn of its loop on the line read: the normalised
\* input, whether the loop returns it, and the error printed when it does not
get_valid_input(line, valid_options) ==
    [user_input |-> Lower(line),
     valid |-> InList(Lower(line), valid_options),
     error |-> ErrorText(valid_options)]

\* handle_jump_sequence: the line read, upper-cased, and whether it is "JUMP"
\* (mutant) the line is compared as typed, without upper-casing
jump_input_exact(line) ==
    [user_input |-> Upper(line),
     valid |-> line = <<"J","U","M","P">>]

jump_input(line) ==
    [user_input |-> Upper(line),
     valid |-> Upper(line) = <<"J","U","M","P">>]

\* (mutant) the comparison is turned round
LuckyAbove(d) == 2 * d >= DrawDen

\* random.random() < 0.5, for the draw d/DrawDen
Lucky(d) == 2 * d < DrawDen

\* the list handle_random_event chooses from
Events == <<"explosion", "door_open">>

\* the question pool of start_trivia_game
questions ==
    << [question |-> "What does CPU stand for?", answer |-> <<"a">>],
       [question |-> "Which of these is an OS?", answer |-> <<"b">>],
       [question |-> "What does RAM stand for?", answer |-> <<"a">>] >>

\* (mutant) a wrong answer costs nothing
trivia_outcome_no_penalty(self, answer, q) ==
    IF answer = questions[q].answer
    THEN [modify_score(self, 5).self EXCEPT !.has_fire_armor = TRUE]
    ELSE self

\* (mutant) the armor is handed over whatever the answer
trivia_outcome_always_armor(self, answer, q) ==
    IF answer = questions[q].answer
    THEN [modify_score(self, 5).self EXCEPT !.has_fire_armor = TRUE]
    ELSE [modify_score(self, -5).self EXCEPT !.has_fire_armor = TRUE]

\* start_trivia_game, the effect of the validated answer on the GameState
trivia_outcome(self, answer, q) ==
    IF answer = questions[q].answer
    THEN [modify_score(self, 5).self EXCEPT !.has_fire_armor = TRUE]
    ELSE modify_score(self, -5).self

\* reset_game, line 118: game_state is rebound to a fresh GameState
reset_game(hp, gs) == [heap |-> Append(hp, GameState), gs |-> Len(hp) + 1]

-----------------------------------------------------------------------------
(* The call stack *)

Frame(fn, pc, gs) ==
    [fn |-> fn, pc |-> pc, gs |-> gs, is_ending |-> FALSE, question |-> 0]

\* (mutant) the prompt is always entered as after a loss
PlayAgainFrame_loss(gs, is_ending) ==
    Frame("handle_play_again", "prompt", gs)

PlayAgainFrame(gs, is_ending) ==
    [Frame("handle_play_again", "prompt", gs) EXCEPT !.is_ending = is_ending]

Top == stack[Len(stack)]

\* the GameState the running function's game_state parameter is bound to
Cur == heap[Top.gs]

SetPc(s, pc) == [s EXCEPT ![Len(s)].pc = pc]

\* the top frame calls f from call site pc
Call(s, pc, f) == Append(SetPc(s, pc), f)

\* main_game_loop activations on the stack
Activations(s) == Cardinality({i \in 1..Len(s) : s[i].fn = "main_game_loop"})

\* (mutant) as Return, but the main loop ends after one path instead of
\* going round
RECURSIVE ReturnLeavesLoop(_)
ReturnLeavesLoop(s) ==
    LET rest == SubSeq(s, 1, Len(s) - 1) IN
    IF rest = <<>> THEN rest
    ELSE LET c == rest[Len(rest)] IN
         CASE c.fn = "main_game_loop" /\ c.pc = "call_play_again" ->
                  SetPc(rest, "prompt")
           [] c.fn \in {"reset_game", "__main__"} /\ c.pc = "call_intro" ->
                  Call(rest, "call_main", Frame("main_game_loop", "top", c.gs))
           [] c.fn = "__main__" /\ c.pc # "call_intro" ->
                  SetPc(rest, "end")
           [] OTHER -> ReturnLeavesLoop(rest)

\* (mutant) as Return, but reset_game returns after the intro instead of
\* entering the main loop, and so does the play-again handler that called it
RECURSIVE ReturnFromRestart(_)
ReturnFromRestart(s) ==
    LET rest == SubSeq(s, 1, Len(s) - 1) IN
    IF rest = <<>> THEN rest
    ELSE LET c == rest[Len(rest)] IN
         CASE c.fn = "main_game_loop" /\ c.pc = "call_play_again" ->
                  SetPc(rest, "prompt")
           [] c.fn = "main_game_loop" /\ c.pc # "call_play_again" ->
                  SetPc(rest, "top")
           [] c.fn = "__main__" /\ c.pc = "call_intro" ->
                  Call(rest, "call_main", Frame("main_game_loop", "top", c.gs))
           [] c.fn = "__main__" /\ c.pc # "call_intro" ->
                  SetPc(rest, "end")
           [] OTHER -> ReturnFromRestart(rest)

\* The top frame of s returns.  Its caller resumes after the call site: the
\* main loop goes round (or, after the game-over check, on to its prompt),
\* the caller of intro calls main_game_loop, every other caller has nothing
\* left to do after the call (a break or the end of the function) and
\* returns in turn.
RECURSIVE Return(_)
Return(s) ==
    LET rest == SubSeq(s, 1, Len(s) - 1) IN
    IF rest = <<>> THEN rest
    ELSE LET c == rest[Len(rest)] IN
         CASE c.fn = "main_game_loop" /\ c.pc = "call_play_again" ->
                  SetPc(rest, "prompt")
           [] c.fn = "main_game_loop" /\ c.pc # "call_play_again" ->
                  SetPc(rest, "top")
           [] c.fn \in {"reset_game", "__main__"} /\ c.pc = "call_intro" ->
                  Call(rest, "call_main", Frame("main_game_loop", "top", c.gs))
           [] c.fn = "__main__" /\ c.pc # "call_intro" ->
                  SetPc(rest, "end")
           [] OTHER -> Return(rest)

-----------------------------------------------------------------------------
(* Scenes and prompts, read off the running frame *)

Scene ==
    IF status = "exited" THEN "Exit"
    ELSE CASE Top.fn = "intro" -> "Intro"
           [] Top.fn = "main_game_loop" -> "PathChoice"
           [] Top.fn = "enter_firewall_path" -> "FirewallPath"
           [] Top.fn = "handle_bridge_crossing" -> "BridgeCrossing"
           [] Top.fn = "handle_jump_sequence" -> "JumpSequence"
           [] Top.fn = "handle_firewall_obstacle" ->
                  IF Top.pc = "ending" THEN "Ending" ELSE "FirewallObstacle"
           [] Top.fn = "enter_core_access" -> "CoreAccess"
           [] Top.fn = "handle_random_event" -> "RandomEvent"
           [] Top.fn = "start_trivia_game" -> "Trivia"
           [] Top.fn = "return_to_core_access" -> "ReturnToCoreAccess"
           [] Top.fn = "handle_fan_obstacle" ->
                  IF Top.pc = "ending" THEN "Ending" ELSE "FanObstacle"
           [] Top.fn = "handle_play_again" -> "PlayAgainPrompt"
           [] OTHER -> "Undefined"

\* the prompt the program is blocked on, "" when it is not reading input
Prompt ==
    IF status = "exited" THEN ""
    ELSE CASE Top.fn = "main_game_loop" /\ Top.pc = "prompt" ->
                  "Where do you go from here? The choice is yours: "
           [] Top.fn = "enter_firewall_path" /\ Top.pc = "prompt" ->
                  "It sounds risky. Will you do it? (Y/N): "
           [] Top.fn = "handle_jump_sequence" -> "> "
           [] Top.fn = "handle_firewall_obstacle" /\ Top.pc = "prompt" -> "> "
           [] Top.fn = "handle_fan_obstacle" /\ Top.pc = "prompt" -> "> "
           [] Top.fn = "enter_core_access" /\ Top.pc = "prompt" ->
                  "Do you press the button? (Y/N): "
           [] Top.fn = "start_trivia_game" /\ Top.pc = "prompt" -> "> "
           [] Top.fn = "return_to_core_access" ->
                  "Go to the firewall corridor? (Y/N): "
           [] Top.fn = "handle_play_again" ->
                  IF Top.is_ending THEN "Would you like to play again? (Y/N): "
                  ELSE "You lost, play again? (Y/N): "
           [] OTHER -> ""

-----------------------------------------------------------------------------
(* Steps *)

Running == status = "running"

\* the lines the next read may return
Feed ==
    IF stdin = <<>> THEN {}
    ELSE IF Head(stdin) = AnyLine THEN Inputs
    ELSE {Head(stdin)}

ReadLine(line, value) ==
    /\ typed' = <<line>>
    /\ user_input' = <<value>>
    /\ stdin' = Tail(stdin)
    /\ UNCHANGED <<scenario, probe>>

NoRead ==
    /\ typed' = <<>>
    /\ user_input' = <<>>
    /\ UNCHANGED <<stdin, scenario, probe>>

\* the step continues in the process with stack s
Go(s) ==
    /\ stack' = s
    /\ UNCHANGED <<status, exitCode>>

\* get_valid_input rejects the line: the error is printed and the loop reads again
Reprompt(r) ==
    /\ Go(stack)
    /\ heap' = heap
    /\ draw' = <<>>
    /\ printed' = <<r.error>>

\* (mutant) the handler returns to its caller instead of exiting
SysExitReturns ==
    /\ stack' = Return(stack)
    /\ UNCHANGED <<status, exitCode>>

\* input() at the end of standard input: EOFError, which nothing catches;
\* the traceback goes to stderr and the process ends with exit code 1
EOFError ==
    /\ Running /\ Prompt # ""
    /\ IF stdin = <<>> THEN TRUE ELSE Head(stdin) = AnyLine
    /\ NoRead
    /\ stack' = <<>>
    /\ status' = "exited"
    /\ exitCode' = 1
    /\ heap' = heap
    /\ draw' = <<>>
    /\ printed' = <<>>

\* sys.exit(): SystemExit unwinds every frame (no handler), exit code 0
SysExit ==
    /\ stack' = <<>>
    /\ status' = "exited"
    /\ exitCode' = 0

\* intro: the opening narrative; its caller (the script or reset_game) then
\* calls main_game_loop
intro ==
    /\ Running /\ Top.fn = "intro"
    /\ NoRead
    /\ Go(Return(stack))
    /\ heap' = heap
    /\ draw' = <<>>
    /\ printed' = <<"Computer system.">>

\* main_game_loop, lines 422-426: the path choices are shown, then the
\* game-over check calls handle_play_again or falls through to the prompt
main_game_loop ==
    /\ Running /\ Top.fn = "main_game_loop" /\ Top.pc = "top"
    /\ NoRead
    /\ Go(IF is_game_over(Cur)
          THEN Call(stack, "call_play_again", PlayAgainFrame(Top.gs, FALSE))
          ELSE SetPc(stack, "prompt"))
    /\ heap' = heap
    /\ draw' = <<>>
    /\ printed' = <<"Ahead of you, there are two paths:">>

\* main_game_loop, lines 427-433: the path prompt
main_game_loop_choice ==
    /\ Running /\ Top.fn = "main_game_loop" /\ Top.pc = "prompt"
    /\ \E line \in Feed :
         LET r == get_valid_input(line, OneTwo) IN
         /\ ReadLine(line, r.user_input)
         /\ IF ~r.valid THEN Reprompt(r)
            ELSE /\ Go(IF r.user_input = <<"1">>
                       THEN Call(stack, "call_path",
                                 Frame("enter_firewall_path", "start", Top.gs))
                       ELSE Call(stack, "call_path",
                                 Frame("enter_core_access", "start", Top.gs)))
                 /\ heap' = heap
                 /\ draw' = <<>>
                 /\ printed' = <<>>

\* enter_firewall_path, lines 171-184: with the armor straight to the jump,
\* without it the bridge question is asked
\* (mutant) the armor is not looked at: the bridge question is always asked
enter_firewall_path_bridge ==
    /\ Running /\ Top.fn = "enter_firewall_path" /\ Top.pc = "start"
    /\ NoRead
    /\ Go(SetPc(stack, "prompt"))
    /\ printed' = <<"You must cross a bridge with lava underneath.">>
    /\ heap' = heap
    /\ draw' = <<>>

enter_firewall_path ==
    /\ Running /\ Top.fn = "enter_firewall_path" /\ Top.pc = "start"
    /\ NoRead
    /\ IF Cur.has_fire_armor
       THEN /\ Go(Call(stack, "call_jump",
                       Frame("handle_jump_sequence", "prompt", Top.gs)))
            /\ printed' = <<"You need to jump high this time; the bridge is broken.",
                            "Type \"JUMP\" to jump to the opposite side">>
       ELSE /\ Go(SetPc(stack, "prompt"))
            /\ printed' = <<"You must cross a bridge with lava underneath.">>
    /\ heap' = heap
    /\ draw' = <<>>

\* enter_firewall_path, lines 185-188: the answer to the bridge question
enter_firewall_path_choice ==
    /\ Running /\ Top.fn = "enter_firewall_path" /\ Top.pc = "prompt"
    /\ \E line \in Feed :
         LET r == get_valid_input(line, YesNo) IN
         /\ ReadLine(line, r.user_input)
         /\ IF ~r.valid THEN Reprompt(r)
            ELSE /\ IF r.user_input = <<"y">>
                    THEN /\ Go(Call(stack, "call_bridge",
                                    Frame("handle_bridge_crossing", "start", Top.gs)))
                         /\ printed' = <<>>
                    ELSE /\ Go(Return(stack))
                         /\ printed' = <<"You decided not to risk it and go back.">>
                 /\ heap' = heap
                 /\ draw' = <<>>

\* handle_bridge_crossing
handle_bridge_crossing ==
    /\ Running /\ Top.fn = "handle_bridge_crossing"
    /\ NoRead
    /\ Go(Call(stack, "call_jump", Frame("handle_jump_sequence", "prompt", Top.gs)))
    /\ heap' = heap
    /\ draw' = <<>>
    /\ printed' = <<"You're halfway across the bridge, but something feels off...",
                    "Type \"JUMP\" to jump to the opposite side">>

\* handle_jump_sequence: one line is read; "JUMP" calls the success callback
\* (handle_firewall_obstacle at both call sites), anything else is a loss
handle_jump_sequence ==
    /\ Running /\ Top.fn = "handle_jump_sequence"
    /\ \E line \in Feed :
         LET r == jump_input(line) IN
         /\ ReadLine(line, r.user_input)
         /\ IF r.valid
            THEN /\ Go(Call(stack, "call_success",
                            Frame("handle_firewall_obstacle", "start", Top.gs)))
                 /\ printed' = <<"Phew, that was really close!">>
            ELSE /\ Go(Call(stack, "call_play_again", PlayAgainFrame(Top.gs, FALSE)))
                 /\ printed' = <<"Looks like you made a typo.">>
         /\ heap' = heap
         /\ draw' = <<>>

\* handle_firewall_obstacle, lines 211-228: with the armor the ending is
\* unlocked, without it the fire choice is offered
\* (mutant) the armor is not looked at: the choice is always offered
handle_firewall_obstacle_unarmored ==
    /\ Running /\ Top.fn = "handle_firewall_obstacle" /\ Top.pc = "start"
    /\ NoRead
    /\ Go(SetPc(stack, "prompt"))
    /\ printed' = <<"You make it across the bridge.",
                    "A huge wall of fire is blocking your path.">>
    /\ heap' = heap
    /\ draw' = <<>>

handle_firewall_obstacle ==
    /\ Running /\ Top.fn = "handle_firewall_obstacle" /\ Top.pc = "start"
    /\ NoRead
    /\ IF Cur.has_fire_armor
       THEN /\ Go(SetPc(stack, "ending"))
            /\ printed' = <<"You make it across the bridge.",
                            "You've unlocked the 'Wall Of Fire' ending!">>
       ELSE /\ Go(SetPc(stack, "prompt"))
            /\ printed' = <<"You make it across the bridge.",
                            "A huge wall of fire is blocking your path.">>
    /\ heap' = heap
    /\ draw' = <<>>

\* handle_firewall_obstacle, lines 229-254: the fire choice
handle_firewall_obstacle_choice ==
    /\ Running /\ Top.fn = "handle_firewall_obstacle" /\ Top.pc = "prompt"
    /\ \E line \in Feed :
         LET r == get_valid_input(line, OneTwo) IN
         /\ ReadLine(line, r.user_input)
         /\ heap' = heap
         /\ IF ~r.valid THEN Reprompt(r)
            ELSE IF r.user_input = <<"1">>
            THEN \E d \in 0..(DrawDen - 1) :
                   /\ draw' = <<d>>
                   /\ IF Lucky(d)
                      THEN /\ Go(SetPc(stack, "ending"))
                           /\ printed' = <<"You've unlocked the 'Wall Of Fire' ending!">>
                      ELSE /\ Go(Call(stack, "call_play_again",
                                      PlayAgainFrame(Top.gs, FALSE)))
                           /\ printed' = <<"Within seconds, your body gives in.">>
            ELSE /\ Go(Return(stack))
                 /\ draw' = <<>>
                 /\ printed' = <<"You decided to go back.">>

\* the end of an ending (lines 220-221, 246-247, 284-285): the farewell line,
\* then handle_play_again(game_state, True)
ending ==
    /\ Running /\ Top.pc = "ending"
    /\ NoRead
    /\ Go(Call(stack, "call_play_again", PlayAgainFrame(Top.gs, TRUE)))
    /\ heap' = heap
    /\ draw' = <<>>
    /\ printed' = <<"Thanks for playing!">>

\* handle_fan_obstacle, lines 268-294: the fan choice; going back calls
\* main_game_loop again, on the same GameState
handle_fan_obstacle ==
    /\ Running /\ Top.fn = "handle_fan_obstacle" /\ Top.pc = "prompt"
    /\ \E line \in Feed :
         LET r == get_valid_input(line, OneTwo) IN
         /\ ReadLine(line, r.user_input)
         /\ heap' = heap
         /\ IF ~r.valid THEN Reprompt(r)
            ELSE IF r.user_input = <<"1">>
            THEN \E d \in 0..(DrawDen - 1) :
                   /\ draw' = <<d>>
                   /\ IF Lucky(d)
                      THEN /\ Go(SetPc(stack, "ending"))
                           /\ printed' = <<"You've unlocked the 'Spinning Blades' ending!">>
                      ELSE /\ Go(Call(stack, "call_play_again",
                                      PlayAgainFrame(Top.gs, FALSE)))
                           /\ printed' = <<"The fan's blades were too fast...">>
            ELSE /\ Go(Call(stack, "call_main", Frame("main_game_loop", "top", Top.gs)))
                 /\ draw' = <<>>
                 /\ printed' = <<"You decide to go back to the main area.">>

\* enter_core_access, lines 303-311: with the armor on to the fan, without
\* it the button question is asked
\* (mutant) the armor is not looked at: the button is always offered
enter_core_access_button ==
    /\ Running /\ Top.fn = "enter_core_access" /\ Top.pc = "start"
    /\ NoRead
    /\ Go(SetPc(stack, "prompt"))
    /\ printed' = <<"It's dark and quiet, but you spot a button...">>
    /\ heap' = heap
    /\ draw' = <<>>

enter_core_access ==
    /\ Running /\ Top.fn = "enter_core_access" /\ Top.pc = "start"
    /\ NoRead
    /\ IF Cur.has_fire_armor
       THEN /\ Go(Call(stack, "call_fan", Frame("handle_fan_obstacle", "prompt", Top.gs)))
            /\ printed' = <<"You continue on your way.", "A large fan blocks your path!">>
       ELSE /\ Go(SetPc(stack, "prompt"))
            /\ printed' = <<"It's dark and quiet, but you spot a button...">>
    /\ heap' = heap
    /\ draw' = <<>>

\* enter_core_access, lines 312-316: the answer to the button question
enter_core_access_choice ==
    /\ Running /\ Top.fn = "enter_core_access" /\ Top.pc = "prompt"
    /\ \E line \in Feed :
         LET r == get_valid_input(line, YesNo) IN
         /\ ReadLine(line, r.user_input)
         /\ IF ~r.valid THEN Reprompt(r)
            ELSE /\ IF r.user_input = <<"y">>
                    THEN /\ Go(Call(stack, "call_event",
                                    Frame("handle_random_event", "start", Top.gs)))
                         /\ printed' = <<>>
                    ELSE /\ Go(Call(stack, "call_fan",
                                    Frame("handle_fan_obstacle", "prompt", Top.gs)))
                         /\ printed' = <<"You don't press the button and continue.",
                                         "A large fan blocks your path!">>
                 /\ heap' = heap
                 /\ draw' = <<>>

\* handle_random_event: explosion (a loss) or the hidden door to the trivia
handle_random_event ==
    /\ Running /\ Top.fn = "handle_random_event"
    /\ NoRead
    /\ \E i \in 1..Len(Events) :
         /\ draw' = <<i>>
         /\ IF Events[i] = "explosion"
            THEN /\ Go(Call(stack, "call_play_again", PlayAgainFrame(Top.gs, FALSE)))
                 /\ printed' = <<"IT'S AN EXPLOSIO-">>
            ELSE /\ Go(Call(stack, "call_trivia",
                            Frame("start_trivia_game", "start", Top.gs)))
                 /\ printed' = <<"You step through and find a shining fire protection armor!">>
    /\ heap' = heap

\* start_trivia_game, lines 368-395: a question is picked and asked
start_trivia_game ==
    /\ Running /\ Top.fn = "start_trivia_game" /\ Top.pc = "start"
    /\ NoRead
    /\ \E q \in 1..Len(questions) :
         /\ draw' = <<q>>
         /\ Go([SetPc(stack, "prompt") EXCEPT ![Len(stack)].question = q])
         /\ printed' = <<questions[q].question>>
    /\ heap' = heap

\* (mutant) the game-over check is made right after the answer is judged
start_trivia_game_answer_checks ==
    /\ Running /\ Top.fn = "start_trivia_game" /\ Top.pc = "prompt"
    /\ \E line \in Feed :
         LET r == get_valid_input(line, Letters) IN
         /\ ReadLine(line, r.user_input)
         /\ IF ~r.valid THEN Reprompt(r)
            ELSE LET after == trivia_outcome(Cur, r.user_input, Top.question) IN
                 /\ heap' = [heap EXCEPT ![Top.gs] = after]
                 /\ Go(IF is_game_over(after)
                       THEN Call(stack, "call_play_again", PlayAgainFrame(Top.gs, FALSE))
                       ELSE Call(stack, "call_return",
                                 Frame("return_to_core_access", "prompt", Top.gs)))
                 /\ draw' = <<>>
                 /\ printed' = IF r.user_input = questions[Top.question].answer
                               THEN <<"Correct! You've earned the fire protection armor.">>
                               ELSE <<"Incorrect! The armor stays locked.">>

\* start_trivia_game, lines 396-413: the answer is judged, then
\* return_to_core_access is called
start_trivia_game_answer ==
    /\ Running /\ Top.fn = "start_trivia_game" /\ Top.pc = "prompt"
    /\ \E line \in Feed :
         LET r == get_valid_input(line, Letters) IN
         /\ ReadLine(line, r.user_input)
         /\ IF ~r.valid THEN Reprompt(r)
            ELSE /\ heap' = [heap EXCEPT
                               ![Top.gs] = trivia_outcome(@, r.user_input, Top.question)]
                 /\ Go(Call(stack, "call_return",
                            Frame("return_to_core_access", "prompt", Top.gs)))
                 /\ draw' = <<>>
                 /\ printed' = IF r.user_input = questions[Top.question].answer
                               THEN <<"Correct! You've earned the fire protection armor.">>
                               ELSE <<"Incorrect! The armor stays locked.">>

\* (mutant) declining the corridor leads back to the button of the tunnel
return_to_core_access_button ==
    /\ Running /\ Top.fn = "return_to_core_access"
    /\ \E line \in Feed :
         LET r == get_valid_input(line, YesNo) IN
         /\ ReadLine(line, r.user_input)
         /\ IF ~r.valid THEN Reprompt(r)
            ELSE /\ IF r.user_input = <<"y">>
                    THEN /\ Go(Call(stack, "call_path",
                                    Frame("enter_firewall_path", "start", Top.gs)))
                         /\ printed' = <<>>
                    ELSE /\ Go(Call(stack, "call_path",
                                    Frame("enter_core_access", "start", Top.gs)))
                         /\ printed' = <<"You're back in the Core Access tunnel.">>
                 /\ heap' = heap
                 /\ draw' = <<>>

\* return_to_core_access
return_to_core_access ==
    /\ Running /\ Top.fn = "return_to_core_access"
    /\ \E line \in Feed :
         LET r == get_valid_input(line, YesNo) IN
         /\ ReadLine(line, r.user_input)
         /\ IF ~r.valid THEN Reprompt(r)
            ELSE /\ IF r.user_input = <<"y">>
                    THEN /\ Go(Call(stack, "call_path",
                                    Frame("enter_firewall_path", "start", Top.gs)))
                         /\ printed' = <<>>
                    ELSE /\ Go(Call(stack, "call_fan",
                                    Frame("handle_fan_obstacle", "prompt", Top.gs)))
                         /\ printed' = <<"But it's vanished. You continue on.",
                                         "A large fan blocks your path!">>
                 /\ heap' = heap
                 /\ draw' = <<>>

\* handle_play_again: 'y' or the empty line calls reset_game, which binds a
\* fresh GameState and calls intro (and main_game_loop after it); 'n' prints
\* the farewell and exits
handle_play_again ==
    /\ Running /\ Top.fn = "handle_play_again"
    /\ \E line \in Feed :
         LET r == get_valid_input(line, YesNoBlank) IN
         /\ ReadLine(line, r.user_input)
         /\ draw' = <<>>
         /\ IF ~r.valid THEN Reprompt(r)
            ELSE IF r.user_input \in {<<"y">>, <<>>}
            THEN LET fresh == reset_game(heap, Top.gs) IN
                 /\ heap' = fresh.heap
                 /\ Go(Append(Call(stack, "call_reset",
                                   Frame("reset_game", "call_intro", fresh.gs)),
                              Frame("intro", "start", fresh.gs)))
                 /\ printed' = <<>>
            ELSE /\ SysExit
                 /\ heap' = heap
                 /\ printed' = <<"Thanks for playing!">>

-----------------------------------------------------------------------------
(* The program *)

\* the inputs of Spec: the open input of MaxLines lines (every input of at
\* most MaxLines lines of Inputs), and the scripts of the scenarios checked
\* below
Scenarios ==
    { [i \in 1..MaxLines |-> AnyLine],
      << <<"y">>, <<"y">>, <<"J","U","M","P">>, <<"1">> >>,
      << <<"1">>, <<"y">>, <<"J","U","M","P">>, <<"1">> >>,
      \* two wrong trivia answers, each followed by a go-back from the fan,
      \* and on into Core Access a third time
      << <<"2">>, <<"y">>, <<"c">>, <<"n">>, <<"2">>,
         <<"2">>, <<"y">>, <<"c">>, <<"n">>, <<"2">>,
         <<"2">>, <<"y">>, <<"c">> >> }

IdleProbe == [phase |-> "idle"]

\* the script's last lines, 436-441, up to the call of intro
Init ==
    /\ heap = <<GameState>>
    /\ stack = <<Frame("__main__", "call_intro", 1), Frame("intro", "start", 1)>>
    /\ status = "running"
    /\ exitCode = -1
    /\ typed = <<>>
    /\ user_input = <<>>
    /\ draw = <<>>
    /\ printed = <<>>
    /\ scenario \in Scenarios
    /\ stdin = scenario
    /\ probe = IdleProbe

Next ==
    \/ intro
    \/ main_game_loop
    \/ main_game_loop_choice
    \/ enter_firewall_path
    \/ enter_firewall_path_choice
    \/ handle_bridge_crossing
    \/ handle_jump_sequence
    \/ handle_firewall_obstacle
    \/ handle_firewall_obstacle_choice
    \/ ending
    \/ handle_fan_obstacle
    \/ enter_core_access
    \/ enter_core_access_choice
    \/ handle_random_event
    \/ start_trivia_game
    \/ start_trivia_game_answer
    \/ return_to_core_access
    \/ handle_play_again
    \/ EOFError

Spec == Init /\ [][Next]_vars

-----------------------------------------------------------------------------
(* The interpreter's recursion limit.  Every restart (line 107) and every   *)
(* go-back from the fan (line 293) is a call made from inside the running   *)
(* main loop, so the stack grows for as long as the player goes on, and     *)
(* the interpreter raises RecursionError when a call does not fit any more. *)

\* sys.getrecursionlimit(): the interpreter's default, which main.py leaves
\* as it is
RecursionLimit == 1000

\* the levels of the limit that the interpreter's own calls take on top of
\* the program's frames (sys.stdout.write and flush, print, input, the
\* GameState constructor): at most CLevels.  How many it is at a given call
\* is the interpreter's business, and the model leaves it open.
CLevels == 3

\* the allowed answers of the prompt that frame f is blocked on
Options(f) ==
    CASE f.fn \in {"main_game_loop", "handle_firewall_obstacle",
                   "handle_fan_obstacle"} -> OneTwo
      [] f.fn \in {"enter_firewall_path", "enter_core_access",
                   "return_to_core_access"} -> YesNo
      [] f.fn = "start_trivia_game" -> Letters
      [] f.fn = "handle_play_again" -> YesNoBlank

\* the line as the reading code normalises it: handle_jump_sequence
\* upper-cases it (line 155), get_valid_input lower-cases it (line 79)
Normal(f, line) ==
    IF f.fn = "handle_jump_sequence" THEN jump_input(line).user_input
    ELSE get_valid_input(line, Options(f)).user_input

\* The frames of main.py that the step of frame f needs above f, for the
\* armor flag and the (normalised) input v at hand: the longest chain of
\* calls the step makes, up to the next prompt.  A handler's printing goes
\* through print_lines_with_pause or print_pause and type_text (2), the path
\* choices through show_path_choices as well (3); a prompt is read inside
\* get_valid_input (1); a handler called by the step is a frame of its own
\* (1) and prints or prompts from there.
Frames(f, armor, v) ==
    CASE f.fn = "intro" -> 2
      [] f.fn = "main_game_loop" /\ f.pc = "top" -> 3
      [] f.fn = "main_game_loop" /\ f.pc = "prompt" -> 1
      [] f.fn = "enter_firewall_path" /\ f.pc = "start" -> 2
      [] f.fn = "enter_firewall_path" /\ f.pc = "prompt" ->
           IF v = <<"n">> THEN 2 ELSE 1
      [] f.fn = "handle_bridge_crossing" -> 2
      [] f.fn = "handle_jump_sequence" ->
           IF jump_input(v).valid THEN 1 ELSE 2
      [] f.fn \in {"handle_firewall_obstacle", "handle_fan_obstacle"}
           /\ f.pc \in {"start", "ending"} -> 2
      [] f.fn \in {"handle_firewall_obstacle", "handle_fan_obstacle"}
           /\ f.pc = "prompt" ->
           IF InList(v, OneTwo) THEN 2 ELSE 1
      [] f.fn = "enter_core_access" /\ f.pc = "start" ->
           IF armor THEN 3 ELSE 2
      [] f.fn \in {"enter_core_access", "return_to_core_access"}
           /\ f.pc = "prompt" ->
           IF v = <<"n">> THEN 3 ELSE 1
      [] f.fn = "handle_random_event" -> 2
      [] f.fn = "start_trivia_game" /\ f.pc = "start" -> 2
      [] f.fn = "start_trivia_game" /\ f.pc = "prompt" ->
           IF InList(v, Letters) THEN 2 ELSE 1
      [] f.fn = "handle_play_again" ->
           IF v \in {<<"y">>, <<>>} THEN 2 ELSE 1

\* the input the step at hand has read, <<>> if it read none
Read == IF user_input' = <<>> THEN <<>> ELSE user_input'[1]

\* the step fits: its frames stay within the limit.  (The end of the input
\* is raised by the input() that is already waiting; it calls nothing.)
WithinLimit ==
    \/ status' = "exited" /\ exitCode' = 1
    \/ Len(stack) + Frames(Top, Cur.has_fire_armor, Read) <= RecursionLimit

\* the step may not fit: with the interpreter's own levels on top of its
\* frames it can pass the limit
MayOverflow(v) ==
    Len(stack) + Frames(Top, Cur.has_fire_armor, v) + CLevels > RecursionLimit

\* the outcome of a step that draws nothing, and of one that drew d: what
\* it prints (the identifying lines) and the value of its draw
Plain(lines) == {[draw |-> <<>>, printed |-> lines]}
Drawn(d, lines) == [draw |-> <<d>>, printed |-> lines]

\* what the step of frame f prints and draws, for every outcome of the draw
\* it makes
Outputs(f, armor, v) ==
    LET reprompt == Plain(<<ErrorText(Options(f))>>) IN
    CASE f.fn = "intro" -> Plain(<<"Computer system.">>)
      [] f.fn = "main_game_loop" /\ f.pc = "top" ->
           Plain(<<"Ahead of you, there are two paths:">>)
      [] f.fn = "main_game_loop" /\ f.pc = "prompt" ->
           IF InList(v, OneTwo) THEN Plain(<<>>) ELSE reprompt
      [] f.fn = "enter_firewall_path" /\ f.pc = "start" ->
           IF armor
           THEN Plain(<<"You need to jump high this time; the bridge is broken.",
                   "Type \"JUMP\" to jump to the opposite side">>)
           ELSE Plain(<<"You must cross a bridge with lava underneath.">>)
      [] f.fn = "enter_firewall_path" /\ f.pc = "prompt" ->
           IF v = <<"y">> THEN Plain(<<>>)
           ELSE IF v = <<"n">> THEN Plain(<<"You decided not to risk it and go back.">>)
           ELSE reprompt
      [] f.fn = "handle_bridge_crossing" ->
           Plain(<<"You're halfway across the bridge, but something feels off...",
              "Type \"JUMP\" to jump to the opposite side">>)
      [] f.fn = "handle_jump_sequence" ->
           IF jump_input(v).valid THEN Plain(<<"Phew, that was really close!">>)
           ELSE Plain(<<"Looks like you made a typo.">>)
      [] f.fn = "handle_firewall_obstacle" /\ f.pc = "start" ->
           IF armor
           THEN Plain(<<"You make it across the bridge.",
                   "You've unlocked the 'Wall Of Fire' ending!">>)
           ELSE Plain(<<"You make it across the bridge.",
                   "A huge wall of fire is blocking your path.">>)
      [] f.fn = "handle_firewall_obstacle" /\ f.pc = "prompt" ->
           IF v = <<"1">>
           THEN {Drawn(d, IF Lucky(d)
                             THEN <<"You've unlocked the 'Wall Of Fire' ending!">>
                             ELSE <<"Within seconds, your body gives in.">>)
                   : d \in 0..(DrawDen - 1)}
           ELSE IF v = <<"2">> THEN Plain(<<"You decided to go back.">>)
           ELSE reprompt
      [] f.fn \in {"handle_firewall_obstacle", "handle_fan_obstacle"}
           /\ f.pc = "ending" -> Plain(<<"Thanks for playing!">>)
      [] f.fn = "handle_fan_obstacle" /\ f.pc = "prompt" ->
           IF v = <<"1">>
           THEN {Drawn(d, IF Lucky(d)
                             THEN <<"You've unlocked the 'Spinning Blades' ending!">>
                             ELSE <<"The fan's blades were too fast...">>)
                   : d \in 0..(DrawDen - 1)}
           ELSE IF v = <<"2">> THEN Plain(<<"You decide to go back to the main area.">>)
           ELSE reprompt
      [] f.fn = "enter_core_access" /\ f.pc = "start" ->
           IF armor
           THEN Plain(<<"You continue on your way.", "A large fan blocks your path!">>)
           ELSE Plain(<<"It's dark and quiet, but you spot a button...">>)
      [] f.fn = "enter_core_access" /\ f.pc = "prompt" ->
           IF v = <<"y">> THEN Plain(<<>>)
           ELSE IF v = <<"n">>
           THEN Plain(<<"You don't press the button and continue.",
                   "A large fan blocks your path!">>)
           ELSE reprompt
      [] f.fn = "handle_random_event" ->
           {Drawn(i, IF Events[i] = "explosion"
                        THEN <<"IT'S AN EXPLOSIO-">>
                        ELSE <<"You step through and find a shining fire protection armor!">>)
              : i \in 1..Len(Events)}
      [] f.fn = "start_trivia_game" /\ f.pc = "start" ->
           {Drawn(q, <<questions[q].question>>) : q \in 1..Len(questions)}
      [] f.fn = "start_trivia_game" /\ f.pc = "prompt" ->
           IF ~InList(v, Letters) THEN reprompt
           ELSE IF v = questions[f.question].answer
           THEN Plain(<<"Correct! You've earned the fire protection armor.">>)
           ELSE Plain(<<"Incorrect! The armor stays locked.">>)
      [] f.fn = "return_to_core_access" ->
           IF v = <<"y">> THEN Plain(<<>>)
           ELSE IF v = <<"n">>
           THEN Plain(<<"But it's vanished. You continue on.",
                   "A large fan blocks your path!">>)
           ELSE reprompt
      [] f.fn = "handle_play_again" ->
           IF v \in {<<"y">>, <<>>} THEN Plain(<<>>)
           ELSE IF v = <<"n">> THEN Plain(<<"Thanks for playing!">>)
           ELSE reprompt

\* a step that is cut short by a call that did not fit: the lines printed
\* before that call, with the value drawn if the draw came before it (a
\* branch that has printed was drawn), and no GameState changed
CutShort(o) ==
    {[draw |-> o.draw, printed |-> SubSeq(o.printed, 1, k)] : k \in 0..Len(o.printed)}
      \cup {[draw |-> <<>>, printed |-> <<>>]}

\* the step of frame f on input v changes the GameState before its last
\* call: the trivia's answer is judged (lines 397-411) before
\* return_to_core_access is called (line 413)
ChangesState(f, v) ==
    f.fn = "start_trivia_game" /\ f.pc = "prompt" /\ InList(v, Letters)

\* what a step that ends in RecursionError leaves behind, v being the input
\* it read.  Either a call in the body of the step did not fit: the step
\* printed what came before that call and changed no GameState (the
\* constructor of line 118 is the deepest call of a restart).  Or the last
\* call of the step did not fit, the input() that opens the next prompt
\* (line 79, which takes levels of its own): all of the step is done,
\* the trivia's modify_score and armor (lines 403-404, 411) included, and
\* no further line is read.
Crashed(v) ==
    \E o \in Outputs(Top, Cur.has_fire_armor, v) :
       \/ /\ \E c \in CutShort(o) : printed' = c.printed /\ draw' = c.draw
          /\ heap' = heap
       \/ /\ ChangesState(Top, v)
          /\ printed' = o.printed
          /\ draw' = o.draw
          /\ heap' = [heap EXCEPT
                        ![Top.gs] = trivia_outcome(@, v, Top.question)]

\* RecursionError: a call of the step does not fit within the limit.
\* Nothing catches it: the traceback goes to stderr and the process ends
\* with exit code 1.  The step has read its line (a prompt was waiting in
\* input(), which returns before anything is called).
RecursionError ==
    /\ Running
    /\ IF Prompt # ""
       THEN \E line \in Feed :
              /\ MayOverflow(Normal(Top, line))
              /\ ReadLine(line, Normal(Top, line))
              /\ Crashed(Normal(Top, line))
       ELSE /\ MayOverflow(<<>>)
            /\ NoRead
            /\ Crashed(<<>>)
    /\ stack' = <<>>
    /\ status' = "exited"
    /\ exitCode' = 1

\* an input script that repeats the lines of block, rounds times
Rounds(block, rounds) ==
    [i \in 1..(rounds * Len(block)) |-> block[((i - 1) % Len(block)) + 1]]

\* inputs that go on until the stack is full.  A lost jump and a
\* restart put 6 frames on the stack each time round (enter_firewall_path,
\* handle_bridge_crossing, handle_jump_sequence, handle_play_again,
\* reset_game, main_game_loop); a go-back from the fan puts 3
\* (enter_core_access, handle_fan_obstacle, main_game_loop).
RestartForEver ==
    Rounds(<< <<"1">>, <<"y">>, <<"j","u","m">>, <<"y">> >>,
           (RecursionLimit \div 6) + 1)

GoBackForEver ==
    Rounds(<< <<"2">>, <<"n">>, <<"2">> >>, (RecursionLimit \div 3) + 1)

\* the go-backs up to the last main loop that fits, then an open input of
\* TailLines lines: every way of playing on at the limit
GoBackThenPlay ==
    Rounds(<< <<"2">>, <<"n">>, <<"2">> >>, (RecursionLimit \div 3) - 2)
      \o [i \in 1..TailLines |-> AnyLine]

DeepInit ==
    /\ heap = <<GameState>>
    /\ stack = <<Frame("__main__", "call_intro", 1), Frame("intro", "start", 1)>>
    /\ status = "running"
    /\ exitCode = -1
    /\ typed = <<>>
    /\ user_input = <<>>
    /\ draw = <<>>
    /\ printed = <<>>
    /\ scenario \in Scenarios \cup {RestartForEver, GoBackForEver, GoBackThenPlay}
    /\ stdin = scenario
    /\ probe = IdleProbe

WithinTheLimit == Next /\ WithinLimit

DeepNext == WithinTheLimit \/ RecursionError

\* the program under the interpreter's recursion limit, on the inputs of
\* Spec and on the inputs that fill the stack
DeepSpec == DeepInit /\ [][DeepNext]_vars

-----------------------------------------------------------------------------
(* modify_score on its own: a start score and two deltas are drawn, the two *)
(* deltas are applied in both orders to two GameState objects               *)

Starts == (0 - MaxStart)..(10 + MaxStart)
Deltas == (0 - MaxDelta)..MaxDelta

ScoreInit ==
    /\ heap = <<GameState>>
    /\ stack = <<>>
    /\ status = "running"
    /\ exitCode = -1
    /\ typed = <<>>
    /\ user_input = <<>>
    /\ draw = <<>>
    /\ printed = <<>>
    /\ scenario = <<>>
    /\ stdin = <<>>
    /\ \E s \in Starts, a \in Deltas, b \in Deltas :
         probe = [phase |-> "start", start |-> s, a |-> a, b |-> b,
                  ab |-> [GameState EXCEPT !.score = s], ret_ab |-> s,
                  ba |-> [GameState EXCEPT !.score = s], ret_ba |-> s]

\* modify_score(a) then modify_score(b) on the first object
ApplyAB ==
    /\ probe.phase = "start"
    /\ LET first == modify_score(probe.ab, probe.a)
           second == modify_score(first.self, probe.b)
       IN probe' = [probe EXCEPT !.phase = "ab", !.ab = second.self,
                                 !.ret_ab = second.result]
    /\ UNCHANGED <<stack, heap, status, exitCode, typed, user_input, draw,
                   printed, scenario, stdin>>

\* modify_score(b) then modify_score(a) on the second object
ApplyBA ==
    /\ probe.phase = "ab"
    /\ LET first == modify_score(probe.ba, probe.b)
           second == modify_score(first.self, probe.a)
       IN probe' = [probe EXCEPT !.phase = "done", !.ba = second.self,
                                 !.ret_ba = second.result]
    /\ UNCHANGED <<stack, heap, status, exitCode, typed, user_input, draw,
                   printed, scenario, stdin>>

ScoreNext == ApplyAB \/ ApplyBA

ScoreSpec == ScoreInit /\ [][ScoreNext]_vars

-----------------------------------------------------------------------------
(* Claims *)

\* the frame of the script or of the reset_game that started the running session
SessionBase(s) ==
    CHOOSE i \in 1..Len(s) :
      /\ s[i].fn \in {"__main__", "reset_game"}
      /\ \A j \in (i + 1)..Len(s) : s[j].fn \notin {"__main__", "reset_game"}

\* C1: after any input, whenever the play-again prompt is answered 'y' (in
\* either case) or with the empty line, the next scene is Intro on a
\* GameState with score 10 and no armor that no earlier frame refers to;
\* Intro is run and followed by PathChoice on the same GameState; and every
\* frame of the running session reads the GameState of the restart that
\* began it.
C1_RestartIsFresh ==
    /\ [][ /\ ( /\ Running /\ Top.fn = "handle_play_again"
                /\ typed' \in { << <<"y">> >>, << <<"Y">> >>, << <<>> >> } )
              => /\ status' = "running"
                 /\ Scene' = "Intro"
                 /\ Cur' = [score |-> 10, has_fire_armor |-> FALSE]
                 /\ \A i \in 1..Len(stack) : stack[i].gs # Top'.gs
           /\ Scene = "Intro"
              => /\ Scene' = "PathChoice"
                 /\ Top'.pc = "top"
                 /\ Top'.gs = Top.gs
                 /\ heap' = heap ]_vars
    /\ [](Running => \A i \in SessionBase(stack)..Len(stack) :
                         stack[i].gs = stack[SessionBase(stack)].gs)

\* C2: answering 'n' at any play-again prompt exits with code 0 after the
\* farewell line, and the exited process takes no further step (no prompt).
\* Exit code 0 comes from that answer only.
C2_DeclineExits ==
    /\ [][ /\ ( /\ Running /\ Top.fn = "handle_play_again"
                /\ typed' = << <<"n">> >> )
              => /\ status' = "exited"
                 /\ exitCode' = 0
                 /\ Prompt' = ""
           /\ (status' = "exited" /\ exitCode' = 0)
              => (Top.fn = "handle_play_again" /\ user_input' = << <<"n">> >>)
           /\ status # "exited" ]_vars
    /\ [](status = "exited" => Prompt = "")

\* C2 witness: the process has exited from the play-again prompt of a
\* restarted session
C2_Witness ==
    /\ status = "exited"
    /\ exitCode = 0
    /\ typed = << <<"n">> >>
    /\ Len(heap) >= 3

\* C3: the armor of a GameState never goes from true to false, and goes from
\* false to true only in the step that judges a correct trivia answer, on
\* the GameState of the running session.
C3_ArmorOnlyFromTrivia ==
    [][ \A i \in 1..Len(heap) :
          /\ heap[i].has_fire_armor => heap'[i].has_fire_armor
          /\ (~heap[i].has_fire_armor /\ heap'[i].has_fire_armor)
               => /\ Scene = "Trivia"
                  /\ i = Top.gs
                  /\ user_input' = <<questions[Top.question].answer>> ]_vars

\* C3 witness: back at the path prompt, in the session that won the armor
C3_Witness ==
    /\ Running
    /\ Top.fn = "main_game_loop" /\ Top.pc = "prompt"
    /\ Cur.has_fire_armor
    /\ Activations(stack) >= 2

\* C4: the step that enters PathChoice leads to the loss play-again prompt
\* exactly when score <= 0, and the path prompt is never shown at score <= 0.
C4_GameOverGate ==
    /\ [][ (Running /\ Top.fn = "main_game_loop" /\ Top.pc = "top")
             => ( ( /\ Scene' = "PlayAgainPrompt"
                    /\ ~Top'.is_ending
                    /\ Prompt' = "You lost, play again? (Y/N): " )
                  <=> Cur.score <= 0 ) ]_vars
    /\ [](Prompt = "Where do you go from here? The choice is yours: "
            => Cur.score > 0)

\* C4 witness: the loss prompt raised by the game-over check at score 0
C4_Witness ==
    /\ Scene = "PlayAgainPrompt"
    /\ stack[Len(stack) - 1].fn = "main_game_loop"
    /\ Cur.score = 0

\* the scenes of the scene table, and process exit
NamedScenes ==
    {"Intro", "PathChoice", "FirewallPath", "BridgeCrossing", "JumpSequence",
     "FirewallObstacle", "CoreAccess", "RandomEvent", "Trivia",
     "ReturnToCoreAccess", "FanObstacle", "Ending", "PlayAgainPrompt"}

\* the step read this (normalised) input
\* the step is the end of standard input: no line was supplied
EndOfInput == status' = "exited" /\ exitCode' = 1

Chose(x) == user_input' = <<x>>

\* the step drew a value below one half
DrewLow == draw' # <<>> /\ 2 * draw'[1] < DrawDen

\* the step stays in its scene: the scene asks its question, or asks it
\* again after an input outside the allowed set
Stays == Scene' = Scene /\ heap' = heap

\* the step is a transition of the scene table, for the scene, armor flag,
\* input and random outcome at hand
Listed ==
    LET from == Scene IN
    CASE from = "Intro" -> Scene' = "PathChoice"
      [] from = "PathChoice" ->
           \/ Cur.score <= 0 /\ Scene' = "PlayAgainPrompt" /\ ~Top'.is_ending
           \/ Cur.score > 0 /\ Stays
           \/ Chose(<<"1">>) /\ Scene' = "FirewallPath"
           \/ Chose(<<"2">>) /\ Scene' = "CoreAccess"
      [] from = "FirewallPath" ->
           \/ Cur.has_fire_armor /\ Scene' = "JumpSequence"
           \/ ~Cur.has_fire_armor /\ Stays
           \/ ~Cur.has_fire_armor /\ Chose(<<"y">>) /\ Scene' = "BridgeCrossing"
           \/ ~Cur.has_fire_armor /\ Chose(<<"n">>) /\ Scene' = "PathChoice"
      [] from = "BridgeCrossing" -> Scene' = "JumpSequence"
      [] from = "JumpSequence" ->
           \/ Chose(<<"J","U","M","P">>) /\ Scene' = "FirewallObstacle"
           \/ /\ ~Chose(<<"J","U","M","P">>)
              /\ Scene' = "PlayAgainPrompt" /\ ~Top'.is_ending
      [] from = "FirewallObstacle" ->
           \/ Cur.has_fire_armor /\ Scene' = "Ending"
           \/ ~Cur.has_fire_armor /\ Stays
           \/ ~Cur.has_fire_armor /\ Chose(<<"1">>) /\ DrewLow /\ Scene' = "Ending"
           \/ /\ ~Cur.has_fire_armor /\ Chose(<<"1">>) /\ ~DrewLow
              /\ Scene' = "PlayAgainPrompt" /\ ~Top'.is_ending
           \/ ~Cur.has_fire_armor /\ Chose(<<"2">>) /\ Scene' = "PathChoice"
      [] from = "Ending" -> Scene' = "PlayAgainPrompt" /\ Top'.is_ending
      [] from = "CoreAccess" ->
           \/ Cur.has_fire_armor /\ Scene' = "FanObstacle"
           \/ ~Cur.has_fire_armor /\ Stays
           \/ ~Cur.has_fire_armor /\ Chose(<<"y">>) /\ Scene' = "RandomEvent"
           \/ ~Cur.has_fire_armor /\ Chose(<<"n">>) /\ Scene' = "FanObstacle"
      [] from = "RandomEvent" ->
           \/ Scene' = "PlayAgainPrompt" /\ ~Top'.is_ending
           \/ Scene' = "Trivia"
      [] from = "Trivia" ->
           \/ Stays
           \/ Scene' = "ReturnToCoreAccess"
      [] from = "ReturnToCoreAccess" ->
           \/ Stays
           \/ Chose(<<"y">>) /\ Scene' = "FirewallPath"
           \/ Chose(<<"n">>) /\ Scene' = "FanObstacle"
      [] from = "FanObstacle" ->
           \/ Stays
           \/ Chose(<<"1">>) /\ DrewLow /\ Scene' = "Ending"
           \/ Chose(<<"1">>) /\ ~DrewLow /\ Scene' = "PlayAgainPrompt" /\ ~Top'.is_ending
           \/ Chose(<<"2">>) /\ Scene' = "PathChoice"
      [] from = "PlayAgainPrompt" ->
           \/ Stays
           \/ Chose(<<"y">>) /\ Scene' = "Intro"
           \/ Chose(<<>>) /\ Scene' = "Intro"
           \/ Chose(<<"n">>) /\ Scene' = "Exit"
      [] OTHER -> FALSE

\* C5: the current scene is always a named scene or process exit, and every
\* step on which a line is supplied where one is read is a transition of the
\* scene table for the current scene, armor flag, input and random outcome.
C5_ScenesDefined ==
    /\ [](Scene \in NamedScenes \cup {"Exit"})
    /\ [][EndOfInput \/ Listed]_vars

\* C5 witness: the longest chain of scenes, from the trivia through the
\* corridor to the fire
C5_Witness ==
    /\ Scene = "FirewallObstacle"
    /\ \E i \in 1..Len(stack) : stack[i].fn = "return_to_core_access"
    /\ \E i \in 1..Len(stack) : stack[i].fn = "handle_bridge_crossing"

\* the correct letters of the three questions (CPU, OS, RAM)
CorrectLetter == << <<"a">>, <<"b">>, <<"a">> >>

\* C6: in Trivia, for each question and each answer a, b or c: the correct
\* letter adds 5 to the score and gives the armor, any other letter takes 5
\* off and leaves the armor as it was; the next scene is ReturnToCoreAccess
\* either way, on the same GameState.
C6_TriviaOutcome ==
    [][ ( /\ Scene = "Trivia" /\ Top.pc = "prompt"
          /\ typed' \in { << <<"a">> >>, << <<"b">> >>, << <<"c">> >> } )
        => /\ Scene' = "ReturnToCoreAccess"
           /\ Top'.gs = Top.gs
           /\ Len(heap') = Len(heap)
           /\ IF typed'[1] = CorrectLetter[Top.question]
              THEN /\ Cur'.score = Cur.score + 5
                   /\ Cur'.has_fire_armor
              ELSE /\ Cur'.score = Cur.score - 5
                   /\ Cur'.has_fire_armor = Cur.has_fire_armor ]_vars

\* C6 witness: the OS question answered 'b' from the initial state
C6_Witness ==
    /\ Scene = "ReturnToCoreAccess"
    /\ stack[Len(stack) - 1].question = 2
    /\ typed = << <<"b">> >>
    /\ Cur = [score |-> 15, has_fire_armor |-> TRUE]

\* the step is a 'go back' or a decline
GoesBack ==
    /\ Running
    /\ \/ Top.fn = "handle_fan_obstacle" /\ Top.pc = "prompt" /\ Chose(<<"2">>)
       \/ Top.fn = "handle_firewall_obstacle" /\ Top.pc = "prompt" /\ Chose(<<"2">>)
       \/ Top.fn = "enter_firewall_path" /\ Top.pc = "prompt" /\ Chose(<<"n">>)

\* C7: every 'go back' (fan choice 2, fire choice 2) and the declined bridge
\* lead to the head of a main loop, PathChoice, on the same GameState, with
\* no GameState changed; and PathChoice then runs: it goes on to its own
\* prompt or to the loss prompt.
C7_GoBackToPathChoice ==
    [][ /\ GoesBack => /\ Scene' = "PathChoice"
                       /\ Top'.pc = "top"
                       /\ Top'.gs = Top.gs
                       /\ heap' = heap
        /\ (Running /\ Scene = "PathChoice" /\ Top.pc = "top")
             => /\ status' = "running"
                /\ Scene' \in {"PathChoice", "PlayAgainPrompt"}
                /\ heap' = heap ]_vars

\* the allowed set of the prompt the frame is blocked on; the jump prompt
\* allows the word JUMP in any case
AllowedAt(f) ==
    CASE f.fn \in {"main_game_loop", "handle_firewall_obstacle", "handle_fan_obstacle"} ->
             { <<"1">>, <<"2">> }
      [] f.fn \in {"enter_firewall_path", "enter_core_access", "return_to_core_access"} ->
             { <<"y">>, <<"n">> }
      [] f.fn = "start_trivia_game" -> { <<"a">>, <<"b">>, <<"c">> }
      [] f.fn = "handle_play_again" -> { <<"y">>, <<"n">>, <<>> }
      [] f.fn = "handle_jump_sequence" -> { <<"j","u","m","p">> }

ErrorMessages ==
    {"Invalid choice. Choose: y, n", "Invalid choice. Choose: 1, 2",
     "Invalid choice. Choose: y, n, ", "Invalid choice. Choose: a, b, c"}

IsLowerCase(v) == \A i \in 1..Len(v) : \A k \in 1..26 : v[i] # UpperLetters[k]

\* a line read at a prompt is either rejected on the spot (nothing changes,
\* the same prompt and an error message are shown) or it is in the allowed
\* set and the prompt hands on its lower-cased form
RecoveredLocally ==
    IF Lower(typed'[1]) \notin AllowedAt(Top)
    THEN /\ stack' = stack
         /\ heap' = heap
         /\ status' = status
         /\ Prompt' = Prompt
         /\ Len(printed') = 1 /\ printed'[1] \in ErrorMessages
    ELSE /\ user_input'[1] \in AllowedAt(Top)
         /\ IsLowerCase(user_input'[1])

\* C8 as stated: at every input prompt of the game, the jump prompt
\* included, a line outside the allowed set is recovered locally and the
\* prompt returns only a lower-cased member of its allowed set.
C8_Original ==
    [][ (Running /\ Prompt # "" /\ typed' # <<>>) => RecoveredLocally ]_vars

\* C8 (amended): at every prompt of get_valid_input, that is at every prompt
\* but the jump prompt, a line outside the allowed set is recovered locally
\* (same prompt again with an error message; stack, GameState and process
\* unchanged) and the prompt returns only a lower-cased member of its
\* allowed set.
C8_InvalidInputReprompts ==
    [][ ( /\ Running /\ Prompt # "" /\ typed' # <<>>
          /\ Top.fn # "handle_jump_sequence" )
        => RecoveredLocally ]_vars

\* C8 witness: the button question asked again after the line "x"
C8_Witness ==
    /\ Scene = "CoreAccess"
    /\ Top.pc = "prompt"
    /\ typed = << <<"x">> >>
    /\ printed = <<"Invalid choice. Choose: y, n">>

\* the stages of a scripted run from the fresh session: nothing read yet,
\* then FirewallPath, the bridge and the jump, FirewallObstacle without
\* armor, and the fourth line "1" with a draw below one half unlocking the
\* 'Wall Of Fire' ending
ScenarioStages(script) ==
    scenario = script =>
      /\ Len(stdin) = 4 => Scene \in {"Intro", "PathChoice"} /\ Cur = GameState
      /\ Len(stdin) = 3 => Scene = "FirewallPath"
      /\ Len(stdin) = 2 => Scene \in {"BridgeCrossing", "JumpSequence"}
      /\ Len(stdin) = 1 => /\ Scene = "FirewallObstacle"
                           /\ Cur = GameState

ScenarioEnding(script) ==
    (scenario = script /\ Len(stdin) = 1 /\ stdin' = <<>> /\ DrewLow)
      => /\ Scene' = "Ending"
         /\ Top'.fn = "handle_firewall_obstacle"
         /\ printed' = <<"You've unlocked the 'Wall Of Fire' ending!">>

\* C9 as stated: the lines "y", "y", "JUMP" from PathChoice of the fresh
\* session reach FirewallObstacle without armor, and "1" with a low draw
\* then reaches the 'Wall Of Fire' ending.
C9_Original ==
    /\ [] ScenarioStages(<< <<"y">>, <<"y">>, <<"J","U","M","P">>, <<"1">> >>)
    /\ [][ScenarioEnding(<< <<"y">>, <<"y">>, <<"J","U","M","P">>, <<"1">> >>)]_vars

\* C9 (amended): the lines "1", "y", "JUMP" from PathChoice of the fresh
\* session go PathChoice -> FirewallPath -> BridgeCrossing -> JumpSequence
\* and reach FirewallObstacle without armor, and "1" with a low draw then
\* reaches the 'Wall Of Fire' ending.
C9_Scenario ==
    /\ [] ScenarioStages(<< <<"1">>, <<"y">>, <<"J","U","M","P">>, <<"1">> >>)
    /\ [][ScenarioEnding(<< <<"1">>, <<"y">>, <<"J","U","M","P">>, <<"1">> >>)]_vars

\* C9 witness: the ending reached by the scripted run
C9_Witness ==
    /\ scenario = << <<"1">>, <<"y">>, <<"J","U","M","P">>, <<"1">> >>
    /\ stdin = <<>>
    /\ typed = << <<"1">> >>
    /\ Scene = "Ending"
    /\ Len(stack) = 6
    /\ Len(heap) = 1

\* C10: whatever the start score s and the deltas a and b, modify_score(a)
\* then modify_score(b), and modify_score(b) then modify_score(a), both leave
\* score = s + a + b, and the last call of each order returns that value.
C10_OrderIndependent ==
    LET sum == probe.start + probe.a + probe.b IN
    /\ probe.phase \in {"ab", "done"} =>
         probe.ab.score = sum /\ probe.ret_ab = sum
    /\ probe.phase = "done" =>
         /\ probe.ba.score = sum /\ probe.ret_ba = sum
         /\ probe.ba = probe.ab

\* C10 witness: from 10, +5 then -5 and -5 then +5 have both been applied
C10_Witness ==
    /\ probe.phase = "done"
    /\ probe.start = 10 /\ probe.a = 5 /\ probe.b = -5
    /\ probe.ab.score = 10 /\ probe.ba.score = 10

\* the scene that follows the current one, as a function of the scene, the
\* armor flag, the input read and the random outcome only (no score)
ExpectedScene ==
    LET from == Scene
        armor == Cur.has_fire_armor
        asks == user_input' = <<>>
    IN
    CASE from = "Intro" -> "PathChoice"
      [] from = "FirewallPath" ->
           IF armor THEN "JumpSequence"
           ELSE IF Chose(<<"y">>) THEN "BridgeCrossing"
           ELSE IF Chose(<<"n">>) THEN "PathChoice"
           ELSE "FirewallPath"
      [] from = "BridgeCrossing" -> "JumpSequence"
      [] from = "JumpSequence" ->
           IF Chose(<<"J","U","M","P">>) THEN "FirewallObstacle" ELSE "PlayAgainPrompt"
      [] from = "FirewallObstacle" ->
           IF armor THEN "Ending"
           ELSE IF Chose(<<"1">>) THEN (IF DrewLow THEN "Ending" ELSE "PlayAgainPrompt")
           ELSE IF Chose(<<"2">>) THEN "PathChoice"
           ELSE "FirewallObstacle"
      [] from = "Ending" -> "PlayAgainPrompt"
      [] from = "CoreAccess" ->
           IF armor THEN "FanObstacle"
           ELSE IF Chose(<<"y">>) THEN "RandomEvent"
           ELSE IF Chose(<<"n">>) THEN "FanObstacle"
           ELSE "CoreAccess"
      [] from = "RandomEvent" ->
           IF Events[draw'[1]] = "explosion" THEN "PlayAgainPrompt" ELSE "Trivia"
      [] from = "Trivia" ->
           IF asks THEN "Trivia"
           ELSE IF user_input'[1] \in { <<"a">>, <<"b">>, <<"c">> }
           THEN "ReturnToCoreAccess"
           ELSE "Trivia"
      [] from = "ReturnToCoreAccess" ->
           IF Chose(<<"y">>) THEN "FirewallPath"
           ELSE IF Chose(<<"n">>) THEN "FanObstacle"
           ELSE "ReturnToCoreAccess"
      [] from = "FanObstacle" ->
           IF Chose(<<"1">>) THEN (IF DrewLow THEN "Ending" ELSE "PlayAgainPrompt")
           ELSE IF Chose(<<"2">>) THEN "PathChoice"
           ELSE "FanObstacle"
      [] from = "PlayAgainPrompt" ->
           IF Chose(<<"y">>) \/ Chose(<<>>) THEN "Intro"
           ELSE IF Chose(<<"n">>) THEN "Exit"
           ELSE "PlayAgainPrompt"
      [] OTHER -> "Undefined"

\* C11: in every scene other than PathChoice the next scene is a function of
\* the input, the random outcome and the armor flag alone, whatever the
\* score; a wrong trivia answer that brings the score to 0 or below still
\* leads to ReturnToCoreAccess.  (The winning ending at score <= 0 is the
\* witness.)
C11_ScoreBlind ==
    [][ /\ (Running /\ Scene # "PathChoice" /\ ~EndOfInput) => Scene' = ExpectedScene
        /\ (Scene = "Trivia" /\ heap' # heap /\ Cur'.score <= 0)
             => Scene' = "ReturnToCoreAccess" ]_vars

\* C11 witness: the play-again prompt of a winning ending, at score 0
C11_Witness ==
    /\ Scene = "PlayAgainPrompt"
    /\ Top.is_ending
    /\ Cur.score <= 0

\* the lines of show_path_choices appear in the output of the step
PathOptionsShown == \E i \in DOMAIN printed' : printed'[i] = "Ahead of you, there are two paths:"

\* C12: when PathChoice is entered with score <= 0 the two path options are
\* not presented; the play-again prompt is shown instead of them.
C12_OptionsHidden ==
    [][ (Running /\ Top.fn = "main_game_loop" /\ Top.pc = "top" /\ Cur.score <= 0)
          => (~PathOptionsShown /\ Scene' = "PlayAgainPrompt") ]_vars

\* C13: JumpSequence gives one attempt.  A line that is JUMP after
\* upper-casing leads to FirewallObstacle on the same, unchanged GameState;
\* any other line (the empty one too) leads to the loss prompt, and the jump
\* prompt is not shown again.
C13_OneJumpAttempt ==
    [][ (Running /\ Scene = "JumpSequence" /\ ~EndOfInput) =>
          /\ typed' # <<>>
          /\ heap' = heap
          /\ Top'.gs = Top.gs
          /\ Scene' # "JumpSequence"
          /\ IF Upper(typed'[1]) = <<"J","U","M","P">>
             THEN Scene' = "FirewallObstacle"
             ELSE /\ Scene' = "PlayAgainPrompt"
                  /\ ~Top'.is_ending
                  /\ Prompt' = "You lost, play again? (Y/N): " ]_vars

\* C13 witness: the empty line was typed at the jump prompt and the loss
\* prompt is being shown
C13_Witness ==
    /\ Scene = "PlayAgainPrompt"
    /\ ~Top.is_ending
    /\ stack[Len(stack) - 1].fn = "handle_jump_sequence"
    /\ typed = << <<>> >>
    /\ printed = <<"Looks like you made a typo.">>

\* the step enters the loss prompt and the process keeps running
EntersLossPrompt ==
    /\ status' = "running"
    /\ Scene' = "PlayAgainPrompt"
    /\ ~Top'.is_ending

\* C14: the play-again prompt is entered with is_ending = TRUE exactly when
\* the scene before it is an Ending; a fire or fan draw >= 0.5, the
\* explosion, a jump typo and the game-over check at PathChoice each enter it
\* with is_ending = FALSE, and lead nowhere else.
C14_EndingFlag ==
    [][ /\ (Running /\ Scene # "PlayAgainPrompt" /\ Scene' = "PlayAgainPrompt")
             => (Top'.is_ending <=> Scene = "Ending")
        /\ (Running /\ Scene = "Ending")
             => (Scene' = "PlayAgainPrompt" /\ Top'.is_ending)
        /\ (Running /\ Scene \in {"FirewallObstacle", "FanObstacle"}
                    /\ Chose(<<"1">>) /\ ~DrewLow) => EntersLossPrompt
        /\ (Running /\ Scene = "RandomEvent" /\ Events[draw'[1]] = "explosion")
             => EntersLossPrompt
        /\ (Running /\ Scene = "JumpSequence" /\ typed' # <<>>
                    /\ ~Chose(<<"J","U","M","P">>))
             => EntersLossPrompt
        /\ (Running /\ Top.fn = "main_game_loop" /\ Top.pc = "top" /\ Cur.score <= 0)
             => EntersLossPrompt ]_vars

\* C14 witness: the prompt after the 'Spinning Blades' ending
C14_Witness ==
    /\ Scene = "PlayAgainPrompt"
    /\ Top.is_ending
    /\ stack[Len(stack) - 1].fn = "handle_fan_obstacle"
    /\ printed = <<"Thanks for playing!">>

\* C15: FirewallObstacle with the armor offers no choice and draws nothing:
\* it goes to the 'Wall Of Fire' ending and then to the prompt with
\* is_ending = TRUE.  Without the armor the choice 1/2 is offered, and the
\* ending is reached only on choice 1 with a draw < 0.5.
C15_FirewallObstacle ==
    [][ (Running /\ Top.fn = "handle_firewall_obstacle") =>
          /\ (Top.pc = "start" /\ Cur.has_fire_armor)
               => (Scene' = "Ending" /\ draw' = <<>> /\ typed' = <<>> /\ Prompt' = "")
          /\ (Top.pc = "start" /\ ~Cur.has_fire_armor)
               => (Scene' = "FirewallObstacle" /\ Top'.pc = "prompt" /\ Prompt' = "> "
                   /\ draw' = <<>>)
          /\ Top.pc = "prompt" => ~Cur.has_fire_armor
          /\ (Top.pc = "prompt" /\ Scene' = "Ending") => (Chose(<<"1">>) /\ DrewLow)
          /\ Top.pc = "ending"
               => (Scene' = "PlayAgainPrompt" /\ Top'.is_ending /\ draw' = <<>>
                   /\ typed' = <<>>) ]_vars

\* C15 witness: the 'Wall Of Fire' ending reached with the armor, nothing
\* read and nothing drawn
C15_Witness ==
    /\ Running
    /\ Top.fn = "handle_firewall_obstacle" /\ Top.pc = "ending"
    /\ Cur.has_fire_armor
    /\ typed = <<>> /\ draw = <<>>

\* C16: with the armor CoreAccess goes straight to FanObstacle, with no
\* button prompt; RandomEvent and Trivia are entered only without the armor;
\* ReturnToCoreAccess answered 'n' goes to FanObstacle.
C16_ArmorSkipsButton ==
    [][ /\ (Running /\ Top.fn = "enter_core_access" /\ Top.pc = "start"
                    /\ Cur.has_fire_armor)
             => (Scene' = "FanObstacle" /\ typed' = <<>>)
        /\ (Scene' \in {"RandomEvent", "Trivia"}) => ~Cur'.has_fire_armor
        /\ (Scene' = "CoreAccess" /\ Top'.pc = "prompt") => ~Cur'.has_fire_armor
        /\ (Running /\ Scene = "ReturnToCoreAccess" /\ Chose(<<"n">>))
             => Scene' = "FanObstacle" ]_vars

\* C16 witness: the fan reached from the tunnel entrance with the armor
C16_Witness ==
    /\ Scene = "FanObstacle"
    /\ Cur.has_fire_armor
    /\ stack[Len(stack) - 1].fn = "enter_core_access"
    /\ typed = <<>>

\* every main-loop activation of the stack is still there, in place, after
\* the step
ActivationsStay ==
    \A i \in 1..Len(stack) :
        stack[i].fn = "main_game_loop"
          => /\ Len(stack') >= i
             /\ stack'[i].fn = "main_game_loop"
             /\ stack'[i].gs = stack[i].gs

C18_ReachablePairs ==
    \A i \in DOMAIN heap :
        /\ <<heap[i].score, heap[i].has_fire_armor>> \in
             { <<10, FALSE>>, <<5, FALSE>>, <<0, FALSE>>, <<15, TRUE>>, <<10, TRUE>> }
        /\ heap[i].has_fire_armor => (heap[i].score >= 10 /\ ~is_game_over(heap[i]))

\* C18 witness: a session with the armor and score 10 passed the game-over
\* check at PathChoice
C18_Witness ==
    /\ Running
    /\ Top.fn = "main_game_loop" /\ Top.pc = "prompt"
    /\ Cur.score = 10 /\ Cur.has_fire_armor

\* C19: a call of handle_play_again never returns.  The frame of the call
\* and every frame below it stay as they are for as long as the process
\* runs, so no caller resumes after the call; the running frame is never one
\* that waits at a play-again call site, and it always works on the newest
\* GameState.
C19_PlayAgainNeverReturns ==
    [][ (Running /\ status' = "running") =>
          /\ \A i \in 1..Len(stack) :
                 stack[i].fn = "handle_play_again"
                   => /\ Len(stack') >= i
                      /\ stack'[i].fn = "handle_play_again"
                      /\ stack'[i].gs = stack[i].gs
                      /\ \A j \in 1..(i - 1) : stack'[j] = stack[j]
          /\ Top'.pc # "call_play_again"
          /\ Top'.gs = Len(heap') ]_vars

\* C19 witness: a restarted session plays on while the handler that started
\* it, and the lost session's GameState with score 0, are still on the stack
C19_Witness ==
    /\ Running
    /\ Scene = "CoreAccess"
    /\ \E i \in 1..(Len(stack) - 1) :
          /\ stack[i].fn = "handle_play_again"
          /\ stack[i].gs # Top.gs
          /\ heap[stack[i].gs].score = 0
          /\ stack[i - 1].fn = "main_game_loop"
          /\ stack[i - 1].pc = "call_play_again"

\* the session holds the armor and is on the firewall path
Committed ==
    /\ Running
    /\ Cur.has_fire_armor
    /\ Top.fn \in {"enter_firewall_path", "handle_jump_sequence",
                   "handle_firewall_obstacle"}

\* the number of steps left, at most, before the play-again prompt
CommitRank ==
    CASE Scene = "FirewallPath" -> 4
      [] Scene = "JumpSequence" -> 3
      [] Scene = "FirewallObstacle" -> 2
      [] Scene = "Ending" -> 1
      [] OTHER -> 0

\* C20: with the armor, choosing path 1 at PathChoice commits the session.
\* No bridge question is asked; the run goes FirewallPath -> JumpSequence;
\* a JUMP leads through FirewallObstacle and the 'Wall Of Fire' ending to the
\* prompt with is_ending = TRUE, a typo to the prompt with is_ending = FALSE.
\* On the way a step is always possible (at the jump prompt: for the line
\* that is supplied), every step brings the prompt nearer, and PathChoice is
\* not passed again.
C20_ArmorCommits ==
    /\ [](Committed => IF Prompt = "" THEN ENABLED <<Next>>_vars
                       ELSE /\ Scene = "JumpSequence"
                            /\ Feed # {} => ENABLED <<handle_jump_sequence>>_vars)
    /\ [][ /\ (Running /\ Top.fn = "main_game_loop" /\ Top.pc = "prompt"
                       /\ Cur.has_fire_armor /\ Chose(<<"1">>))
                => (Scene' = "FirewallPath" /\ Top'.pc = "start" /\ Committed')
           /\ (Committed /\ ~EndOfInput) =>
                /\ status' = "running"
                /\ heap' = heap
                /\ Scene' # "PathChoice"
                /\ Scene' = "PlayAgainPrompt" \/ Committed'
                /\ CommitRank' < CommitRank
                /\ Scene = "FirewallPath"
                     => (typed' = <<>> /\ Scene' = "JumpSequence" /\ Prompt' = "> ")
                /\ Scene = "JumpSequence"
                     => IF Chose(<<"J","U","M","P">>)
                        THEN Scene' = "FirewallObstacle"
                        ELSE Scene' = "PlayAgainPrompt" /\ ~Top'.is_ending
                /\ Scene = "FirewallObstacle" => (Scene' = "Ending" /\ typed' = <<>>)
                /\ Scene = "Ending" => (Scene' = "PlayAgainPrompt" /\ Top'.is_ending) ]_vars

\* C20 witness: the prompt after the 'Wall Of Fire' ending of a session that
\* chose path 1 at PathChoice with the armor
C20_Witness ==
    /\ Scene = "PlayAgainPrompt"
    /\ Top.is_ending
    /\ Cur.has_fire_armor
    /\ Len(stack) >= 5
    /\ stack[Len(stack) - 1].fn = "handle_firewall_obstacle"
    /\ stack[Len(stack) - 2].fn = "handle_jump_sequence"
    /\ stack[Len(stack) - 3].fn = "enter_firewall_path"
    /\ stack[Len(stack) - 4].fn = "main_game_loop"

=============================================================================
